---------------------------- MODULE Spec2Model ----------------------------
(***************************************************************************)
(* Model of the reference-matching and suggestion engine of the Git        *)
(* autocompletion plugin (src/src/Logic.cpp, src/src/Trie.hpp).            *)
(*                                                                         *)
(* A C string is a sequence of one-character strings; the terminating NUL  *)
(* is the position Len(s) + 1.  Only 7-bit characters are used, for which  *)
(* the transcoding at the command-line boundary (w2mb / mb2w) keeps the    *)
(* code units, so the buffer is modelled at the byte level.                *)
(***************************************************************************)
EXTENDS Integers, Sequences, FiniteSets, TLC

(***************************************************************************)
(* Bounds of the model.                                                    *)
(***************************************************************************)
\* largest number of references in the repository
MaxRefs == 2
\* length of the window of consecutive suggestions that is remembered
MaxWindow == 4
\* longest candidate list handed to the cycler on its own
MaxCands == 3
\* longest reference name and longest prefix handed to the matcher on its own
MaxRefLen == 3
MaxPrefixLen == 2

(***************************************************************************)
(* Characters and strings.                                                 *)
(***************************************************************************)
\* the byte value of a character: std::string compares byte-wise
Code(c) ==
    CASE c = "-" -> 45 [] c = "/" -> 47 [] c = "1" -> 49 [] c = "Q" -> 81
      [] c = "a" -> 97 [] c = "b" -> 98 [] c = "c" -> 99 [] c = "d" -> 100
      [] c = "e" -> 101 [] c = "f" -> 102 [] c = "g" -> 103 [] c = "h" -> 104
      [] c = "i" -> 105 [] c = "k" -> 107 [] c = "m" -> 109 [] c = "n" -> 110
      [] c = "o" -> 111 [] c = "q" -> 113 [] c = "r" -> 114 [] c = "s" -> 115
      [] c = "t" -> 116 [] c = "u" -> 117 [] c = "v" -> 118 [] c = "x" -> 120
      [] c = "y" -> 121 [] c = "z" -> 122

\* ispunct and isupper of the C locale, on the characters above
ispunct(c) == Code(c) \in (33..47) \cup (58..64) \cup (91..96) \cup (123..126)
isupper(c) == Code(c) \in 65..90

Range(s) == {s[i] : i \in 1..Len(s)}

\* StartsWith(str, prefix) of Utils: str begins with prefix
StartsWith(str, prefix) ==
    /\ Len(prefix) <= Len(str)
    /\ SubSeq(str, 1, Len(prefix)) = prefix

\* DropPrefix(str, prefix) of Utils: str without its first Len(prefix) characters
DropPrefix(str, prefix) == SubSeq(str, Len(prefix) + 1, Len(str))

\* variant of strchr: the last position >= from holding c
strchrLast(s, from, c) ==
    LET hits == {i \in from..Len(s) : s[i] = c}
    IN  IF hits = {} THEN 0 ELSE CHOOSE i \in hits : \A j \in hits : j <= i

\* strchr(s + from - 1, c): the first position >= from holding c, 0 for nullptr
strchr(s, from, c) ==
    LET hits == {i \in from..Len(s) : s[i] = c}
    IN  IF hits = {} THEN 0 ELSE CHOOSE i \in hits : \A j \in hits : i <= j

\* std::string operator< : lexicographic on bytes, a proper prefix is smaller
RECURSIVE LessStr(_, _)
LessStr(a, b) ==
    IF b = << >> THEN FALSE
    ELSE IF a = << >> THEN TRUE
    ELSE IF Head(a) # Head(b) THEN Code(Head(a)) < Code(Head(b))
    ELSE LessStr(Tail(a), Tail(b))

\* std::sort of a vector<string>, ascending
RECURSIVE SortInsert(_, _)
SortInsert(sorted, s) ==
    IF sorted = << >> THEN <<s>>
    ELSE IF LessStr(s, Head(sorted)) THEN <<s>> \o sorted
    ELSE <<Head(sorted)>> \o SortInsert(Tail(sorted), s)

RECURSIVE Sort(_)
Sort(v) == IF v = << >> THEN << >> ELSE SortInsert(Sort(Tail(v)), Head(v))

\* variant of Unique: nothing is erased
UniqueKeepingAll(v) == v

\* erase(unique(begin, end), end): drops an element equal to the one before it
RECURSIVE Unique(_)
Unique(v) ==
    IF Len(v) <= 1 THEN v
    ELSE IF v[1] = v[2] THEN Unique(Tail(v))
    ELSE <<v[1]>> \o Unique(Tail(v))

(***************************************************************************)
(* The fully-qualified prefixes and the names of the model's repository.   *)
(***************************************************************************)
HeadsPrefix == <<"r","e","f","s","/","h","e","a","d","s","/">>
TagsPrefix == <<"r","e","f","s","/","t","a","g","s","/">>
RemotePrefix == <<"r","e","f","s","/","r","e","m","o","t","e","s","/">>

Master == <<"m","a","s","t","e","r">>
Main == <<"m","a","i","n">>
Origin == <<"o","r","i","g","i","n">>

\* the references a repository of the model is made of
RefUniverse ==
    { HeadsPrefix \o Master,
      HeadsPrefix \o Main,
      TagsPrefix \o <<"m","a">>,
      TagsPrefix \o <<"o","/","m">>,
      RemotePrefix \o Origin \o <<"/">> \o Master,
      RemotePrefix \o Origin,
      <<"r","e","f","s","/","s","t","a","s","h">> }

\* the suggested suffix found at the start: none, or one left by an earlier use
LeftSuffixes == { << >>, <<"i","n">> }

\* what the user may have typed before the invocation
TypedPrefixes ==
    { << >>, <<"m">>, <<"m","a">>, <<"o","/","m">>, <<"x">> }

(***************************************************************************)
(* Reference Classifier.                                                   *)
(***************************************************************************)
\* How a build continues after `slashPtr + 1` of a null slashPtr was passed
\* on (assertions compiled out): the read of that address either faults or
\* yields some bytes, which are then treated as one more name.
UBOutcomes ==
    { [crash |-> TRUE, junk |-> << >>],
      [crash |-> FALSE, junk |-> << >>],
      [crash |-> FALSE, junk |-> <<"m">>] }

\* variant of FilterReferences: the remote name is stripped at the last '/'
FilterReferencesLastSlash(options, ref, ndebug, ub) ==
    IF StartsWith(ref, HeadsPrefix)
        THEN [names |-> <<DropPrefix(ref, HeadsPrefix)>>, fate |-> "ok", ignored |-> FALSE]
    ELSE IF StartsWith(ref, TagsPrefix)
        THEN [names |-> <<DropPrefix(ref, TagsPrefix)>>, fate |-> "ok", ignored |-> FALSE]
    ELSE IF StartsWith(ref, RemotePrefix)
        THEN LET remoteRef == DropPrefix(ref, RemotePrefix)
                 slashes == {i \in 1..Len(remoteRef) : remoteRef[i] = "/"}
                 slashPtr == IF slashes = {} THEN 0
                             ELSE CHOOSE i \in slashes : \A j \in slashes : j <= i
             IN  IF ~options.stripRemoteName
                     THEN [names |-> <<remoteRef>>, fate |-> "ok", ignored |-> FALSE]
                 ELSE IF slashPtr # 0
                     THEN [names |-> <<remoteRef, SubSeq(remoteRef, slashPtr + 1, Len(remoteRef))>>,
                           fate |-> "ok", ignored |-> FALSE]
                 ELSE IF ~ndebug
                     THEN [names |-> <<remoteRef>>, fate |-> "aborted", ignored |-> FALSE]
                 ELSE IF ub.crash
                     THEN [names |-> <<remoteRef>>, fate |-> "crashed", ignored |-> FALSE]
                 ELSE [names |-> <<remoteRef, ub.junk>>, fate |-> "ok", ignored |-> FALSE]
    ELSE [names |-> << >>, fate |-> "ok", ignored |-> TRUE]

\* FilterReferences(options, ref, filterOneRef): `names` are the arguments of
\* the calls of filterOneRef, in order; `fate` is how the call ends.
FilterReferences(options, ref, ndebug, ub) ==
    IF StartsWith(ref, HeadsPrefix)
        THEN [names |-> <<DropPrefix(ref, HeadsPrefix)>>, fate |-> "ok", ignored |-> FALSE]
    ELSE IF StartsWith(ref, TagsPrefix)
        THEN [names |-> <<DropPrefix(ref, TagsPrefix)>>, fate |-> "ok", ignored |-> FALSE]
    ELSE IF StartsWith(ref, RemotePrefix)
        THEN LET remoteRef == DropPrefix(ref, RemotePrefix)
                 slashPtr == strchr(remoteRef, 1, "/")
             IN  IF ~options.stripRemoteName
                     THEN [names |-> <<remoteRef>>, fate |-> "ok", ignored |-> FALSE]
                 ELSE IF slashPtr # 0
                     THEN [names |-> <<remoteRef, SubSeq(remoteRef, slashPtr + 1, Len(remoteRef))>>,
                           fate |-> "ok", ignored |-> FALSE]
                 ELSE IF ~ndebug
                     THEN [names |-> <<remoteRef>>, fate |-> "aborted", ignored |-> FALSE]
                 ELSE IF ub.crash
                     THEN [names |-> <<remoteRef>>, fate |-> "crashed", ignored |-> FALSE]
                 ELSE [names |-> <<remoteRef, ub.junk>>, fate |-> "ok", ignored |-> FALSE]
    ELSE [names |-> << >>, fate |-> "ok", ignored |-> TRUE]

(***************************************************************************)
(* Candidate Selector.                                                     *)
(***************************************************************************)
\* variant of PartialPrefixLoop: the search starts after the ref cursor
RECURSIVE PartialPrefixLoopNext(_, _, _, _, _)
PartialPrefixLoopNext(ref, prefix, p, r, n) ==
    IF p = Len(prefix) + 1
        THEN [result |-> TRUE, p |-> p, r |-> r, iterations |-> n]
    ELSE IF ispunct(prefix[p]) \/ isupper(prefix[p])
        THEN LET found == strchr(ref, r + 1, prefix[p])
             IN  IF found = 0
                     THEN [result |-> FALSE, p |-> p, r |-> r, iterations |-> n]
                     ELSE PartialPrefixLoopNext(ref, prefix, p + 1, found + 1, n + 1)
    ELSE IF r = Len(ref) + 1 \/ prefix[p] # ref[r]
        THEN [result |-> FALSE, p |-> p, r |-> r, iterations |-> n]
    ELSE PartialPrefixLoopNext(ref, prefix, p + 1, r + 1, n + 1)

\* variant of PartialPrefixLoop: the ref cursor moves on twice after a search
RECURSIVE PartialPrefixLoopSkipping(_, _, _, _, _)
PartialPrefixLoopSkipping(ref, prefix, p, r, n) ==
    IF p = Len(prefix) + 1
        THEN [result |-> TRUE, p |-> p, r |-> r, iterations |-> n]
    ELSE IF ispunct(prefix[p]) \/ isupper(prefix[p])
        THEN LET found == strchr(ref, r, prefix[p])
             IN  IF found = 0
                     THEN [result |-> FALSE, p |-> p, r |-> r, iterations |-> n]
                     ELSE PartialPrefixLoopSkipping(ref, prefix, p + 1, found + 2, n + 1)
    ELSE IF r >= Len(ref) + 1 \/ prefix[p] # ref[r]
        THEN [result |-> FALSE, p |-> p, r |-> r, iterations |-> n]
    ELSE PartialPrefixLoopSkipping(ref, prefix, p + 1, r + 1, n + 1)

\* The loop of RefMayBeEncodedByPartialPrefix from cursors p and r (positions,
\* 1-based); n counts the iterations.
RECURSIVE PartialPrefixLoop(_, _, _, _, _)
PartialPrefixLoop(ref, prefix, p, r, n) ==
    IF p = Len(prefix) + 1
        THEN [result |-> TRUE, p |-> p, r |-> r, iterations |-> n]
    ELSE IF ispunct(prefix[p]) \/ isupper(prefix[p])
        THEN LET found == strchr(ref, r, prefix[p])
             IN  IF found = 0
                     THEN [result |-> FALSE, p |-> p, r |-> r, iterations |-> n]
                     ELSE PartialPrefixLoop(ref, prefix, p + 1, found + 1, n + 1)
    ELSE IF r = Len(ref) + 1 \/ prefix[p] # ref[r]
        THEN [result |-> FALSE, p |-> p, r |-> r, iterations |-> n]
    ELSE PartialPrefixLoop(ref, prefix, p + 1, r + 1, n + 1)

RefMayBeEncodedByPartialPrefix(ref, prefix) ==
    PartialPrefixLoop(ref, prefix, 1, 1, 1).result

\* variant of IsSuitableRef: the strict strategy matches as the partial one does
IsSuitableRefPartialOnly(strategy, refName, currentPrefix) ==
    RefMayBeEncodedByPartialPrefix(refName, currentPrefix)

\* variant of IsSuitableRef: the strict strategy wants a name longer than the prefix
IsSuitableRefProper(strategy, refName, currentPrefix) ==
    IF strategy = "strict"
        THEN StartsWith(refName, currentPrefix) /\ Len(refName) > Len(currentPrefix)
        ELSE RefMayBeEncodedByPartialPrefix(refName, currentPrefix)

\* the predicate handed to ObtainSuitableRefsBy by the two strategies
IsSuitableRef(strategy, refName, currentPrefix) ==
    IF strategy = "strict"
        THEN StartsWith(refName, currentPrefix)
        ELSE RefMayBeEncodedByPartialPrefix(refName, currentPrefix)

\* the callback of ObtainSuitableRefsBy applied to the names of one reference
RECURSIVE PushSuitable(_, _, _, _)
PushSuitable(suitableRefs, names, strategy, currentPrefix) ==
    IF names = << >> THEN suitableRefs
    ELSE PushSuitable(
            IF IsSuitableRef(strategy, Head(names), currentPrefix)
                THEN Append(suitableRefs, Head(names)) ELSE suitableRefs,
            Tail(names), strategy, currentPrefix)

\* One enumeration by the backend: `refs` in the backend's order; `failNew`
\* when git_reference_iterator_new fails; `failAt` = k >= 0 when
\* git_reference_next fails after k references, -1 when it ends in ITEROVER.
NoFault == [failNew |-> FALSE, failAt |-> -1]

\* the while loop of ObtainSuitableRefsBy from reference i on; RefsLoopBody is
\* its body once FilterReferences has returned f for reference i
RECURSIVE RefsLoop(_, _, _, _, _, _, _, _)
RECURSIVE RefsLoopBody(_, _, _, _, _, _, _, _, _)
RefsLoop(options, iter, i, suitableRefs, strategy, currentPrefix, ndebug, ub) ==
    IF iter.failAt = i - 1
        \* git_reference_next returned an error other than GIT_ITEROVER
        THEN [fate |-> IF ndebug THEN "ok" ELSE "aborted",
              suitableRefs |-> suitableRefs, iterError |-> TRUE]
    ELSE IF i > Len(iter.refs)
        THEN [fate |-> "ok", suitableRefs |-> suitableRefs, iterError |-> FALSE]
    ELSE RefsLoopBody(FilterReferences(options, iter.refs[i], ndebug, ub), options, iter, i,
                      suitableRefs, strategy, currentPrefix, ndebug, ub)

RefsLoopBody(f, options, iter, i, suitableRefs, strategy, currentPrefix, ndebug, ub) ==
    IF f.fate # "ok"
        THEN [fate |-> f.fate,
              suitableRefs |-> PushSuitable(suitableRefs, f.names, strategy, currentPrefix),
              iterError |-> FALSE]
        ELSE RefsLoop(options, iter, i + 1,
                      PushSuitable(suitableRefs, f.names, strategy, currentPrefix),
                      strategy, currentPrefix, ndebug, ub)

\* ObtainSuitableRefsBy: the error of git_reference_iterator_new is dropped and
\* git_reference_next is called on the null iterator, which faults or fails.
ObtainSuitableRefsBy(options, iter, suitableRefs, strategy, currentPrefix, ndebug, ub) ==
    IF iter.failNew
        THEN IF ub.crash
                 THEN [fate |-> "crashed", suitableRefs |-> suitableRefs, iterError |-> TRUE]
                 ELSE [fate |-> IF ndebug THEN "ok" ELSE "aborted",
                       suitableRefs |-> suitableRefs, iterError |-> TRUE]
        ELSE RefsLoop(options, iter, 1, suitableRefs, strategy, currentPrefix, ndebug, ub)

ObtainSuitableRefsByStrictPrefix(options, iter, currentPrefix, suitableRefs, ndebug, ub) ==
    ObtainSuitableRefsBy(options, iter, suitableRefs, "strict", currentPrefix, ndebug, ub)

ObtainSuitableRefsByPartialPrefixes(options, iter, currentPrefix, suitableRefs, ndebug, ub) ==
    ObtainSuitableRefsBy(options, iter, suitableRefs, "partial", currentPrefix, ndebug, ub)

(***************************************************************************)
(* Prefix Trie (Trie.hpp declares it): the nodes are the paths from the    *)
(* root, `terminal` the paths at which an inserted string ends.            *)
(***************************************************************************)
trie_create == [nodes |-> {<< >>}, terminal |-> {}]

trie_add(trie, str) ==
    [nodes |-> trie.nodes \cup {SubSeq(str, 1, k) : k \in 0..Len(str)},
     terminal |-> trie.terminal \cup {str}]

\* descend from `path` while the node has one child and no string ends at it
RECURSIVE TrieDescend(_, _)
TrieDescend(trie, path) ==
    LET children == {n \in trie.nodes : Len(n) = Len(path) + 1 /\ StartsWith(n, path)}
    IN  IF path \in trie.terminal \/ Cardinality(children) # 1
            THEN path
            ELSE TrieDescend(trie, CHOOSE n \in children : TRUE)

trie_get_common_prefix(trie) == TrieDescend(trie, << >>)

\* variant of TrieOf: only the first string is added
TrieOfFirst(trie, strs) ==
    IF strs = << >> THEN trie ELSE trie_add(trie, Head(strs))

\* lines 109-111: for_each adds the strings in the order of the vector
RECURSIVE TrieOf(_, _)
TrieOf(trie, strs) ==
    IF strs = << >> THEN trie ELSE TrieOf(trie_add(trie, Head(strs)), Tail(strs))

\* variant of FindCommonPrefix: the first candidate
FirstCandidate(suitableRefs) ==
    IF suitableRefs = << >> THEN << >> ELSE suitableRefs[1]

FindCommonPrefix(suitableRefs) ==
    trie_get_common_prefix(TrieOf(trie_create, suitableRefs))

(***************************************************************************)
(* Suggestion Cycler.                                                      *)
(***************************************************************************)
\* variant of FindIndex: the position counted from one
FindIndexOneBased(v, value) ==
    LET hits == {i \in 1..Len(v) : v[i] = value}
    IN  IF hits = {} THEN Len(v)
        ELSE CHOOSE i \in hits : \A j \in hits : i <= j

\* distance(begin, find(begin, end, value)): 0-based, size when absent
FindIndex(v, value) ==
    LET hits == {i \in 1..Len(v) : v[i] = value}
    IN  IF hits = {} THEN Len(v)
        ELSE (CHOOSE i \in hits : \A j \in hits : i <= j) - 1

\* variant of NextIndex: a text that is no candidate starts at index 0 in both
\* directions
NextIndexFromZero(forwardSearch, idx, size) ==
    IF idx = size
        THEN 0
        ELSE (idx + (IF forwardSearch THEN 1 ELSE -1) + size) % size

\* idx is a size_t: the -1 of the backward step wraps, and since
\* 0 <= idx - 1 + size the sum taken modulo 2^w is idx - 1 + size again.
NextIndex(forwardSearch, idx, size) ==
    IF idx = size
        THEN IF forwardSearch THEN 0 ELSE size - 1
        ELSE (idx + (IF forwardSearch THEN 1 ELSE -1) + size) % size

\* variant of ObtainNextSuggestedSuffix: the first candidate, whatever is shown
FirstSuggestion(forwardSearch, currentPrefix, currentSuffix, suitableRefs) ==
    DropPrefix(suitableRefs[1], currentPrefix)

ObtainNextSuggestedSuffix(forwardSearch, currentPrefix, currentSuffix, suitableRefs) ==
    LET size == Len(suitableRefs)
        idx == FindIndex(suitableRefs, currentPrefix \o currentSuffix)
    IN  DropPrefix(suitableRefs[NextIndex(forwardSearch, idx, size) + 1], currentPrefix)

(***************************************************************************)
(* Command-line buffer, dialog and repository collaborators.               *)
(***************************************************************************)
GetUserPrefix(cl) == cl.userPrefix
GetSuggestedSuffix(cl) == cl.suggestedSuffix
ReplaceUserPrefix(cl, newPrefix) == [cl EXCEPT !.userPrefix = newPrefix]
ReplaceSuggestedSuffix(cl, newSuffix) == [cl EXCEPT !.suggestedSuffix = newSuffix]

\* ShowRefsDialog(suitableRefs, text): answer 0 is a cancel (empty string),
\* answer i the i-th entry of the list shown
ShowRefsDialog(suitableRefs, answer) ==
    IF answer = 0 THEN << >> ELSE suitableRefs[answer]

\* OpenGitRepo(dir): "repo" on success; nullptr, with a line in the log, for a
\* directory that does not transcode and for a failure of git_repository_open_ext
OpenGitRepo(dir) ==
    IF dir = "bad" THEN [repo |-> "nullptr", log |-> {"Bad dir for Git"}]
    ELSE IF dir = "norepo" THEN [repo |-> "nullptr", log |-> {"libgit2 error"}]
    ELSE [repo |-> "repo", log |-> {}]

(***************************************************************************)
(* Match Orchestrator.                                                     *)
(***************************************************************************)
\* a remote-tracking reference without '/' after refs/remotes/
Malformed(ref) ==
    StartsWith(ref, RemotePrefix) /\ strchr(DropPrefix(ref, RemotePrefix), 1, "/") = 0

\* The result of TransformCmdLine holds the buffer after the call, how the call
\* ended (host, kind) and the values of its locals.  Ended is the result of a
\* call that stops before the candidates are sorted.
Ended(cmdLine, sel, host, kind, log) ==
    [host |-> host, cmdLine |-> cmdLine, kind |-> kind, strategy |-> sel.strategy,
     currentPrefix |-> GetUserPrefix(cmdLine), currentSuffix |-> << >>,
     suitableRefs |-> << >>, newPrefix |-> << >>,
     ops |-> <<"GetUserPrefix">>, log |-> {"User prefix"} \cup log,
     iterError |-> sel.iterError, strictError |-> sel.strictError,
     shown |-> << >>]

\* variant of FallBack: the partial strategy runs whatever the strict one found
FallBackMixing(strict, options, iter2, currentPrefix, ndebug, ub) ==
    IF strict.fate = "ok"
        THEN [strategy |-> IF strict.suitableRefs = << >> THEN "partial" ELSE "strict",
              strictError |-> strict.iterError]
                 @@ ObtainSuitableRefsByPartialPrefixes(options, iter2, currentPrefix,
                                                        strict.suitableRefs, ndebug, ub)
        ELSE [strategy |-> "strict", strictError |-> FALSE] @@ strict

\* lines 132-137: the strict strategy, and the partial one when it found nothing
FallBack(strict, options, iter2, currentPrefix, ndebug, ub) ==
    IF strict.fate = "ok" /\ strict.suitableRefs = << >>
        THEN [strategy |-> "partial", strictError |-> strict.iterError]
                 @@ ObtainSuitableRefsByPartialPrefixes(options, iter2, currentPrefix,
                                                        strict.suitableRefs, ndebug, ub)
        ELSE [strategy |-> "strict", strictError |-> FALSE] @@ strict

SelectRefs(options, iter1, iter2, currentPrefix, ndebug, ub) ==
    FallBack(ObtainSuitableRefsByStrictPrefix(options, iter1, currentPrefix, << >>, ndebug, ub),
             options, iter2, currentPrefix, ndebug, ub)

\* variant of Commit: the suggested suffix is emptied as well
CommitDroppingSuffix(cmdLine, sel, suitableRefs, newPrefix) ==
    [Ended(cmdLine, sel, "running", "commit", {"Suitable ref", "Common prefix"})
        EXCEPT !.cmdLine = ReplaceUserPrefix(ReplaceSuggestedSuffix(cmdLine, << >>), newPrefix),
               !.suitableRefs = suitableRefs, !.newPrefix = newPrefix,
               !.ops = @ \o <<"ReplaceUserPrefix">>]

\* line 159: the common prefix replaces the user prefix, and the call returns
Commit(cmdLine, sel, suitableRefs, newPrefix) ==
    [Ended(cmdLine, sel, "running", "commit", {"Suitable ref", "Common prefix"})
        EXCEPT !.cmdLine = ReplaceUserPrefix(cmdLine, newPrefix),
               !.suitableRefs = suitableRefs, !.newPrefix = newPrefix,
               !.ops = @ \o <<"ReplaceUserPrefix">>]

\* variant of Dialog: a chosen reference becomes the user prefix, the suggested
\* suffix stays
DialogKeepingSuffix(cmdLine, sel, suitableRefs, newPrefix, currentSuffix, selectedRef) ==
    [Ended(cmdLine, sel, "running", "dialog",
           {"Suitable ref", "Common prefix", "currentSuffix", "Showing dialog",
            "Dialog closed"})
        EXCEPT !.cmdLine = IF selectedRef # << >>
                               THEN ReplaceUserPrefix(cmdLine, selectedRef)
                               ELSE cmdLine,
               !.suitableRefs = suitableRefs, !.newPrefix = newPrefix,
               !.currentSuffix = currentSuffix,
               !.shown = <<[list |-> suitableRefs,
                            text |-> GetUserPrefix(cmdLine) \o currentSuffix,
                            selectedRef |-> selectedRef]>>,
               !.ops = IF selectedRef # << >>
                           THEN @ \o <<"GetSuggestedSuffix", "ShowRefsDialog",
                                       "ReplaceSuggestedSuffix", "ReplaceUserPrefix">>
                           ELSE @ \o <<"GetSuggestedSuffix", "ShowRefsDialog">>]

\* variant of Dialog: the suggested suffix is dropped before the answer is looked at
DialogDroppingSuffix(cmdLine, sel, suitableRefs, newPrefix, currentSuffix, selectedRef) ==
    [Ended(cmdLine, sel, "running", "dialog",
           {"Suitable ref", "Common prefix", "currentSuffix", "Showing dialog",
            "Dialog closed"})
        EXCEPT !.cmdLine = IF selectedRef # << >>
                               THEN ReplaceUserPrefix(
                                        ReplaceSuggestedSuffix(cmdLine, << >>), selectedRef)
                               ELSE ReplaceSuggestedSuffix(cmdLine, << >>),
               !.suitableRefs = suitableRefs, !.newPrefix = newPrefix,
               !.currentSuffix = currentSuffix,
               !.shown = <<[list |-> suitableRefs,
                            text |-> GetUserPrefix(cmdLine) \o currentSuffix,
                            selectedRef |-> selectedRef]>>,
               !.ops = IF selectedRef # << >>
                           THEN @ \o <<"GetSuggestedSuffix", "ShowRefsDialog",
                                       "ReplaceSuggestedSuffix", "ReplaceUserPrefix">>
                           ELSE @ \o <<"GetSuggestedSuffix", "ShowRefsDialog">>]

\* lines 162-178: the dialog; a chosen reference drops the suggested suffix and
\* becomes the user prefix
Dialog(cmdLine, sel, suitableRefs, newPrefix, currentSuffix, selectedRef) ==
    [Ended(cmdLine, sel, "running", "dialog",
           {"Suitable ref", "Common prefix", "currentSuffix", "Showing dialog",
            "Dialog closed"})
        EXCEPT !.cmdLine = IF selectedRef # << >>
                               THEN ReplaceUserPrefix(
                                        ReplaceSuggestedSuffix(cmdLine, << >>), selectedRef)
                               ELSE cmdLine,
               !.suitableRefs = suitableRefs, !.newPrefix = newPrefix,
               !.currentSuffix = currentSuffix,
               !.shown = <<[list |-> suitableRefs,
                            text |-> GetUserPrefix(cmdLine) \o currentSuffix,
                            selectedRef |-> selectedRef]>>,
               !.ops = IF selectedRef # << >>
                           THEN @ \o <<"GetSuggestedSuffix", "ShowRefsDialog",
                                       "ReplaceSuggestedSuffix", "ReplaceUserPrefix">>
                           ELSE @ \o <<"GetSuggestedSuffix", "ShowRefsDialog">>]

\* lines 162-163, 181-183: the next suggestion replaces the suggested suffix
Cycle(cmdLine, sel, suitableRefs, newPrefix, currentSuffix, newSuffix) ==
    [Ended(cmdLine, sel, "running", "cycle",
           {"Suitable ref", "Common prefix", "currentSuffix", "nextSuffx"})
        EXCEPT !.cmdLine = ReplaceSuggestedSuffix(cmdLine, newSuffix),
               !.suitableRefs = suitableRefs, !.newPrefix = newPrefix,
               !.currentSuffix = currentSuffix,
               !.ops = @ \o <<"GetSuggestedSuffix", "ObtainNextSuggestedSuffix",
                              "ReplaceSuggestedSuffix">>]

\* lines 158-185: the commit of another prefix, the dialog or the cycler
Decide(options, cmdLine, sel, suitableRefs, newPrefix, currentPrefix, currentSuffix, answer) ==
    IF newPrefix # currentPrefix
        THEN Commit(cmdLine, sel, suitableRefs, newPrefix)
    ELSE IF options.showDialog
        THEN Dialog(cmdLine, sel, suitableRefs, newPrefix, currentSuffix,
                    ShowRefsDialog(suitableRefs, answer))
    ELSE Cycle(cmdLine, sel, suitableRefs, newPrefix, currentSuffix,
               ObtainNextSuggestedSuffix(options.suggestNextSuffix, currentPrefix,
                                         currentSuffix, suitableRefs))

\* lines 144-155: sort, unique and the common prefix of the candidates
SortedCandidates(options, cmdLine, sel, suitableRefs, answer) ==
    Decide(options, cmdLine, sel, suitableRefs, FindCommonPrefix(suitableRefs),
           GetUserPrefix(cmdLine), GetSuggestedSuffix(cmdLine), answer)

\* variant of Orchestrate: no early return, an empty candidate list commits its
\* (empty) common prefix
OrchestrateCommittingEmpty(options, cmdLine, sel, answer) ==
    IF sel.fate # "ok"
        THEN Ended(cmdLine, sel, sel.fate, "died", {})
    ELSE IF sel.suitableRefs = << >>
        THEN Commit(cmdLine, sel, << >>, << >>)
    ELSE SortedCandidates(options, cmdLine, sel, Unique(Sort(sel.suitableRefs)), answer)

\* lines 139-145: no candidate ends the call
Orchestrate(options, cmdLine, sel, answer) ==
    IF sel.fate # "ok"
        THEN Ended(cmdLine, sel, sel.fate, "died", {})
    ELSE IF sel.suitableRefs = << >>
        THEN Ended(cmdLine, sel, "running", "empty", {"No suitable refs"})
    ELSE SortedCandidates(options, cmdLine, sel, Unique(Sort(sel.suitableRefs)), answer)

\* TransformCmdLine(options, cmdLine, repo): iter1 and iter2 are what the
\* backend does in the first and in the second enumeration, `answer` what the
\* dialog returns.
TransformCmdLine(options, cmdLine, iter1, iter2, ndebug, ub, answer) ==
    Orchestrate(options, cmdLine,
                SelectRefs(options, iter1, iter2, GetUserPrefix(cmdLine), ndebug, ub),
                answer)

(***************************************************************************)
(* The plugin as a state machine.                                          *)
(***************************************************************************)
VARIABLES
    repo,       \* the references of the repository
    options,    \* Options: stripRemoteName, suggestNextSuffix, showDialog
    cmdLine,    \* the buffer: userPrefix and suggestedSuffix
    host,       \* "running", "aborted" (assert) or "crashed" (fault)
    last,       \* the last invocation: how it ended and its locals
    window,     \* the names suggested by the latest consecutive cycling invocations
    call        \* a function of the engine applied on its own: inputs and result

vars == <<repo, options, cmdLine, host, last, window, call>>

\* the references of S in ascending byte order
RECURSIVE Ascending(_)
Ascending(S) ==
    IF S = {} THEN << >>
    ELSE LET least == CHOOSE x \in S : \A y \in S : x = y \/ LessStr(x, y)
         IN  <<least>> \o Ascending(S \ {least})

Reverse(s) == [i \in 1..Len(s) |-> s[Len(s) + 1 - i]]

\* the orders in which the backend of the model enumerates a repository
BackendOrders(S) == {Ascending(S), Reverse(Ascending(S))}

\* the ways an enumeration of n references fails
Faults(n) ==
    {[failNew |-> TRUE, failAt |-> -1]} \cup {[failNew |-> FALSE, failAt |-> k] : k \in 0..n}

\* no junk: the value of `ub` where no undefined behaviour is met
NoUB == [crash |-> FALSE, junk |-> << >>]

\* with stripRemoteName, a malformed reference of the repository fails the assert
AssertFails == options.stripRemoteName /\ \E ref \in repo : Malformed(ref)

\* the names the classifier yields for the references S
ShortNames(opts, S) ==
    UNION {Range(FilterReferences(opts, ref, FALSE, NoUB).names) : ref \in S}

\* the record kept when no invocation has run since the last edit
NoInvocation ==
    [kind |-> "none", strategy |-> "none", before |-> [userPrefix |-> << >>,
     suggestedSuffix |-> << >>], currentPrefix |-> << >>, currentSuffix |-> << >>,
     suitableRefs |-> << >>, newPrefix |-> << >>, ops |-> << >>, log |-> {},
     iterError |-> FALSE, faulty |-> FALSE, ndebug |-> FALSE,
     delivered1 |-> {}, delivered2 |-> {},
     prevKind |-> "none", prevStrategy |-> "none", prevFaulty |-> FALSE,
     prevNewPrefix |-> << >>, prevSuitableRefs |-> << >>, shown |-> << >>]

NoCall == [op |-> "none"]

Init ==
    /\ repo \in {S \in SUBSET RefUniverse : Cardinality(S) <= MaxRefs}
    /\ options \in [stripRemoteName : BOOLEAN, suggestNextSuffix : BOOLEAN,
                    showDialog : BOOLEAN]
    /\ cmdLine \in [userPrefix : TypedPrefixes, suggestedSuffix : LeftSuffixes]
    /\ host = "running"
    /\ last = NoInvocation
    /\ window = << >>
    /\ call = NoCall

\* the references an enumeration delivers before it ends
Delivered(iter) ==
    IF iter.failNew THEN {}
    ELSE IF iter.failAt >= 0 /\ iter.failAt < Len(iter.refs)
        THEN {iter.refs[i] : i \in 1..iter.failAt}
    ELSE Range(iter.refs)

\* the record of an invocation that ended as `out`
Recorded(out, iter1, iter2, faulty, nd) ==
    IF out.kind = "died"
        THEN [NoInvocation EXCEPT !.kind = "died", !.before = cmdLine,
                                  !.iterError = out.iterError \/ out.strictError,
                                  !.faulty = faulty,
                                  !.ndebug = nd, !.ops = out.ops, !.log = out.log]
        ELSE [kind |-> out.kind, strategy |-> out.strategy, before |-> cmdLine,
              currentPrefix |-> out.currentPrefix, currentSuffix |-> out.currentSuffix,
              suitableRefs |-> out.suitableRefs, newPrefix |-> out.newPrefix,
              ops |-> out.ops, log |-> out.log,
              iterError |-> out.iterError \/ out.strictError,
              faulty |-> faulty, ndebug |-> nd,
              delivered1 |-> Delivered(iter1), delivered2 |-> Delivered(iter2),
              prevKind |-> last.kind, prevStrategy |-> last.strategy,
              prevFaulty |-> last.faulty,
              prevNewPrefix |-> last.newPrefix,
              prevSuitableRefs |-> last.suitableRefs, shown |-> out.shown]

\* the window after an invocation: a cycling step on the whole reference set
\* extends it, anything else empties it
Slide(out, faulty) ==
    IF out.kind = "cycle" /\ ~faulty
        THEN LET w == Append(window, out.cmdLine.userPrefix \o out.cmdLine.suggestedSuffix)
             IN  IF Len(w) > MaxWindow THEN Tail(w) ELSE w
        ELSE << >>

\* One run of TransformCmdLine on the enumerations iter1 and iter2, in a build
\* with (nd) or without assert() compiled out; the dialog, when it is shown,
\* gives any of its answers.
Run(iter1, iter2, nd, ub, faulty) ==
    \E probe \in {TransformCmdLine(options, cmdLine, iter1, iter2, nd, ub, 0)} :
    \E answer \in IF probe.kind = "dialog" THEN 0..Len(probe.suitableRefs) ELSE {0} :
    \E out \in {IF answer = 0 THEN probe
                ELSE TransformCmdLine(options, cmdLine, iter1, iter2, nd, ub, answer)} :
        /\ cmdLine' = out.cmdLine
        /\ host' = out.host
        /\ last' = Recorded(out, iter1, iter2, faulty, nd)
        /\ window' = Slide(out, faulty)

\* The hot key with a repository that opens, a backend that reports no error
\* and no failing assertion: TransformCmdLine runs to its end.
Invoke ==
    /\ host = "running"
    /\ OpenGitRepo("ok").repo # "nullptr"
    /\ ~AssertFails
    /\ \E order \in BackendOrders(repo) :
         LET iter == [refs |-> order] @@ NoFault
         IN  Run(iter, iter, FALSE, NoUB, FALSE)
    /\ UNCHANGED <<repo, options, call>>

\* The hot key when the backend fails in one of the enumerations: considered
\* for the first invocation after the line was typed, in both builds.
InvokeBackendError ==
    /\ host = "running"
    /\ last.kind = "none"
    /\ OpenGitRepo("ok").repo # "nullptr"
    /\ \E order \in BackendOrders(repo) : \E fault \in Faults(Cardinality(repo)) :
       \E nd \in BOOLEAN :
         LET second == \A name \in ShortNames(options, {ref \in repo : ~Malformed(ref)}) :
                          ~StartsWith(name, cmdLine.userPrefix)
         IN  \E pass \in IF second THEN 1..2 ELSE {1} :
             \E ub \in IF fault.failNew \/ (nd /\ AssertFails) THEN UBOutcomes ELSE {NoUB} :
               Run([refs |-> order] @@ (IF pass = 1 THEN fault ELSE NoFault),
                   [refs |-> order] @@ (IF pass = 2 THEN fault ELSE NoFault),
                   nd, ub, TRUE)
    /\ UNCHANGED <<repo, options, call>>

\* The hot key when the backend delivers a malformed remote reference and
\* stripRemoteName is set: the assert fails, or is compiled out.
InvokeMalformed ==
    /\ host = "running"
    /\ last.kind = "none"
    /\ OpenGitRepo("ok").repo # "nullptr"
    /\ AssertFails
    /\ \E order \in BackendOrders(repo) : \E nd \in BOOLEAN :
       \E ub \in IF nd THEN UBOutcomes ELSE {NoUB} :
         LET iter == [refs |-> order] @@ NoFault
         IN  Run(iter, iter, nd, ub, TRUE)
    /\ UNCHANGED <<repo, options, call>>

\* The hot key with a repository that does not open: the failure is logged and
\* the caller does nothing more.
InvokeNoRepo ==
    /\ host = "running"
    /\ \E dir \in {"bad", "norepo"} :
         /\ OpenGitRepo(dir).repo = "nullptr"
         /\ last' = [NoInvocation EXCEPT !.kind = "norepo", !.before = cmdLine,
                                         !.log = OpenGitRepo(dir).log]
    /\ window' = << >>
    /\ UNCHANGED <<repo, options, cmdLine, host, call>>

\* The user types: another prefix, and the suggested suffix (the selection) is gone.
UserEdit ==
    /\ host = "running"
    /\ \E p \in TypedPrefixes :
         /\ [userPrefix |-> p, suggestedSuffix |-> << >>] # cmdLine
         /\ cmdLine' = [userPrefix |-> p, suggestedSuffix |-> << >>]
    /\ last' = NoInvocation
    /\ window' = << >>
    /\ UNCHANGED <<repo, options, host, call>>

Next == Invoke \/ InvokeBackendError \/ InvokeMalformed \/ InvokeNoRepo \/ UserEdit

Spec == Init /\ [][Next]_vars

(***************************************************************************)
(* The suggestion cycler applied on its own, as LogicTest applies it: to   *)
(* any list of distinct names, sorted or not.                              *)
(***************************************************************************)
Abc == <<"a","b","c">>
Bar == <<"b","a","r">>
Foo == <<"f","o","o">>
Xyz == <<"x","y","z">>

\* the other variables while a function is applied on its own
Idle ==
    /\ repo = {}
    /\ options = [stripRemoteName |-> FALSE, suggestNextSuffix |-> FALSE, showDialog |-> FALSE]
    /\ cmdLine = [userPrefix |-> << >>, suggestedSuffix |-> << >>]
    /\ host = "running"
    /\ last = NoInvocation
    /\ window = << >>

CyclerNames == {Abc \o Bar, Abc \o Foo, Abc \o Xyz, Abc}

\* the lists of distinct names of CyclerNames, at most MaxCands long
CandidateLists ==
    {v \in UNION {[1..n -> CyclerNames] : n \in 1..MaxCands} :
        \A i, j \in 1..Len(v) : v[i] = v[j] => i = j}

GivenSuffixes == {<< >>, Bar, Foo, Xyz, <<"Q">>}

CyclerInit == Idle /\ call = NoCall

\* one call of ObtainNextSuggestedSuffix
CyclerCall ==
    /\ \E forwardSearch \in BOOLEAN : \E suitableRefs \in CandidateLists :
       \E currentSuffix \in GivenSuffixes :
         call' = [op |-> "next", forwardSearch |-> forwardSearch, currentPrefix |-> Abc,
                  currentSuffix |-> currentSuffix, suitableRefs |-> suitableRefs,
                  newSuffix |-> ObtainNextSuggestedSuffix(forwardSearch, Abc, currentSuffix,
                                                          suitableRefs)]
    /\ UNCHANGED <<repo, options, cmdLine, host, last, window>>

\* the call repeated on the suffix it returned
CyclerRepeat ==
    /\ call.op = "next"
    /\ call' = [call EXCEPT !.currentSuffix = call.newSuffix,
                            !.newSuffix = ObtainNextSuggestedSuffix(call.forwardSearch,
                                              call.currentPrefix, call.newSuffix,
                                              call.suitableRefs)]
    /\ UNCHANGED <<repo, options, cmdLine, host, last, window>>

CyclerNext == CyclerCall \/ CyclerRepeat

CyclerSpec == CyclerInit /\ [][CyclerNext]_vars

(***************************************************************************)
(* The reference classifier applied on its own to one reference.           *)
(***************************************************************************)
NotesPrefix == <<"r","e","f","s","/","n","o","t","e","s","/">>
RefsPrefix == <<"r","e","f","s","/">>

\* names after the prefix: plain, with one slash, with slashes in the branch,
\* with an empty branch, and the last component of refs/stash
ClassifierNames ==
    { Master, <<"m","a">>, Origin, Origin \o <<"/">> \o Master,
      Origin \o <<"/","f","/","x">>, <<"o","/">>, <<"s","t","a","s","h">> }

ClassifierRefs ==
    {prefix \o name : prefix \in {HeadsPrefix, TagsPrefix, RemotePrefix, NotesPrefix, RefsPrefix},
                      name \in ClassifierNames}

ClassifierInit == Idle /\ call = NoCall

\* one call of FilterReferences, in a build with or without assertions
Classify ==
    /\ \E ref \in ClassifierRefs : \E strip \in BOOLEAN : \E ndebug \in BOOLEAN :
       \E ub \in IF strip /\ ndebug /\ Malformed(ref) THEN UBOutcomes ELSE {NoUB} :
         call' = [op |-> "classify", ref |-> ref, stripRemoteName |-> strip,
                  ndebug |-> ndebug,
                  out |-> FilterReferences([stripRemoteName |-> strip], ref, ndebug, ub)]
    /\ UNCHANGED <<repo, options, cmdLine, host, last, window>>

ClassifierNext == Classify

ClassifierSpec == ClassifierInit /\ [][ClassifierNext]_vars

(***************************************************************************)
(* The partial-prefix matcher applied on its own: to the pairs of          *)
(* LogicTest and to every short pair over a small alphabet.                *)
(***************************************************************************)
Qux == <<"q","u","x">>
Slash == <<"/">>
FooBarQux == Foo \o Slash \o Bar \o Slash \o Qux

\* the pairs (ref, prefix) LogicTest expects to match
LogicTestMatching ==
    { <<<<"s","v","n","/","t","r","u","n","k">>, <<"s","/","t">>>>,
      <<FooBarQux, <<"f","/","b">>>>,
      <<FooBarQux, <<"f","/","b","/","q">>>>,
      <<FooBarQux, <<"f","/","b","a","/","q">>>>,
      <<FooBarQux, <<"f","/","b","a","r","/","q">>>>,
      <<FooBarQux, FooBarQux>>,
      <<Foo \o Slash \o Bar \o <<"-">> \o Qux, <<"f","/","b","-","q">>>>,
      <<Foo \o Slash \o Bar \o <<"Q","u","x">>, <<"f","/","b","Q">>>> }

\* the pairs LogicTest expects not to match
LogicTestNotMatching ==
    { <<FooBarQux, <<"f","o","/","b","a","z","/","q">>>>,
      <<Foo, <<"f","/","b">>>>,
      <<Foo \o Slash, <<"f","/","b">>>>,
      <<Foo \o Slash \o <<"b">>, <<"f","/","b","a","r">>>>,
      <<FooBarQux, <<"f","/","q">>>>,
      <<Foo \o Slash \o Bar \o <<"-">> \o Qux, <<"f","/","b","r","q">>>> }

\* a lowercase letter or two, a punctuation character and an uppercase letter
MatcherChars == {"a", "b", "/", "Q"}

\* the strings over MatcherChars of length n at most
MatcherStrings(n) == UNION {[1..k -> MatcherChars] : k \in 0..n}

MatcherPairs ==
    (MatcherStrings(MaxRefLen) \X MatcherStrings(MaxPrefixLen))
        \cup LogicTestMatching \cup LogicTestNotMatching

MatcherInit == Idle /\ call = NoCall

\* one call of RefMayBeEncodedByPartialPrefix; `loop` is where its loop ended
MatcherCall ==
    /\ call.op = "none"
    /\ \E pair \in MatcherPairs :
         call' = [op |-> "match", ref |-> pair[1], prefix |-> pair[2],
                  loop |-> PartialPrefixLoop(pair[1], pair[2], 1, 1, 1),
                  result |-> RefMayBeEncodedByPartialPrefix(pair[1], pair[2]),
                  strict |-> IsSuitableRef("strict", pair[1], pair[2]),
                  partial |-> IsSuitableRef("partial", pair[1], pair[2])]
    /\ UNCHANGED <<repo, options, cmdLine, host, last, window>>

MatcherNext == MatcherCall

MatcherSpec == MatcherInit /\ [][MatcherNext]_vars

(***************************************************************************)
(* FindCommonPrefix applied on its own: to any list of names, in any order *)
(* and with repetitions.                                                   *)
(***************************************************************************)
PrefixNames ==
    { << >>, <<"a">>, <<"a","b">>, <<"a","b","c">>, <<"a","b","d">>, <<"b">>,
      Main, Master }

\* the lists of MaxCands names at most
PrefixLists == UNION {[1..k -> PrefixNames] : k \in 0..MaxCands}

PrefixInit == Idle /\ call = NoCall

\* one call of FindCommonPrefix
PrefixCall ==
    /\ call.op = "none"
    /\ \E v \in PrefixLists :
         call' = [op |-> "prefix", suitableRefs |-> v, newPrefix |-> FindCommonPrefix(v)]
    /\ UNCHANGED <<repo, options, cmdLine, host, last, window>>

PrefixNext == PrefixCall

PrefixSpec == PrefixInit /\ [][PrefixNext]_vars

(***************************************************************************)
(* Properties of the orchestrator (Spec).                                  *)
(***************************************************************************)
\* C1: an invocation that commits another prefix makes one buffer write,
\* ReplaceUserPrefix(newPrefix), and returns: the suggested suffix is neither
\* read nor written, the cycler and the dialog are not called.  An invocation
\* that cycles (newPrefix = currentPrefix, dialog off) writes only the
\* suggested suffix, with a suffix of a candidate, and keeps the user prefix.
C1_BranchWrites ==
    LET IsWrite(op) == op \in {"ReplaceUserPrefix", "ReplaceSuggestedSuffix"}
    IN  /\ last.kind = "commit" =>
             /\ last.newPrefix # last.currentPrefix
             /\ last.ops = <<"GetUserPrefix", "ReplaceUserPrefix">>
             /\ cmdLine = [userPrefix |-> last.newPrefix,
                           suggestedSuffix |-> last.before.suggestedSuffix]
        /\ last.kind = "cycle" =>
             /\ last.newPrefix = last.currentPrefix /\ ~options.showDialog
             /\ SelectSeq(last.ops, IsWrite) = <<"ReplaceSuggestedSuffix">>
             /\ cmdLine.userPrefix = last.before.userPrefix
             /\ cmdLine.userPrefix \o cmdLine.suggestedSuffix \in Range(last.suitableRefs)

\* a commit that found a suggested suffix in the buffer and left it there
C1_Witness ==
    /\ last.kind = "commit"
    /\ last.before.suggestedSuffix = <<"i","n">>
    /\ cmdLine.suggestedSuffix = <<"i","n">>
    /\ cmdLine.userPrefix # last.before.userPrefix

\* C2 (as amended): a commit of the strict strategy grows the user prefix: the
\* new prefix starts with the typed one and is longer.  A commit of the
\* partial-prefix fallback replaces the typed prefix by the common prefix of
\* the candidates, which differs from it and, when both enumerations ran to
\* their end, does not start with it.
C2_CommitGrowsOrReplaces ==
    last.kind = "commit" =>
        /\ cmdLine.userPrefix = last.newPrefix
        /\ last.strategy = "strict" =>
             /\ StartsWith(last.newPrefix, last.currentPrefix)
             /\ Len(last.newPrefix) > Len(last.currentPrefix)
        /\ last.strategy = "partial" =>
             /\ last.newPrefix # last.currentPrefix
             /\ ~last.iterError => ~StartsWith(last.newPrefix, last.currentPrefix)

\* the typed acronym o/m is replaced by origin/master
C2_Witness ==
    /\ last.kind = "commit"
    /\ last.strategy = "partial"
    /\ last.before.userPrefix = <<"o","/","m">>
    /\ cmdLine.userPrefix = Origin \o <<"/">> \o Master

\* C2 as stated: every commit grows the user prefix, whichever strategy
\* selected the candidates
C2_EveryCommitGrows ==
    last.kind = "commit" =>
        /\ StartsWith(last.newPrefix, last.currentPrefix)
        /\ Len(last.newPrefix) > Len(last.currentPrefix)

\* C3 (as amended): the invocation that follows a commit, with no edit between
\* and the same references, starts from the committed prefix and computes the
\* same newPrefix, so it does not commit: it shows the dialog or it cycles.
\* When it cycles the user prefix stays and the suggested suffix is replaced;
\* the buffer is left as it was only when there is one candidate and no
\* suggested suffix.
C3_SecondRunCycles ==
    (last.prevKind = "commit" /\ last.kind \in {"empty", "commit", "dialog", "cycle"}) =>
        /\ last.currentPrefix = last.prevNewPrefix
        /\ last.newPrefix = last.prevNewPrefix
        /\ last.kind \in {"dialog", "cycle"}
        /\ last.kind = "cycle" =>
             /\ cmdLine.userPrefix = last.before.userPrefix
             /\ (cmdLine = last.before) <=>
                    (Len(last.suitableRefs) = 1 /\ last.before.suggestedSuffix = << >>)

\* the run after the commit of "ma" suggests main
C3_Witness ==
    /\ last.prevKind = "commit"
    /\ last.kind = "cycle"
    /\ last.before = [userPrefix |-> <<"m","a">>, suggestedSuffix |-> << >>]
    /\ cmdLine = [userPrefix |-> <<"m","a">>, suggestedSuffix |-> <<"i","n">>]

\* C3 as stated: the run after a commit computes the same newPrefix and leaves
\* the user prefix and the suggested suffix as they were
C3_SecondRunChangesNothing ==
    (last.prevKind = "commit" /\ last.kind \in {"empty", "commit", "dialog", "cycle"}) =>
        /\ last.newPrefix = last.prevNewPrefix
        /\ cmdLine = last.before

(***************************************************************************)
(* Properties of the suggestion cycler (CyclerSpec).                       *)
(***************************************************************************)
\* C4: with N >= 1 candidates, when currentPrefix + currentSuffix is the
\* candidate at index i the cycler selects index (i + 1) mod N forward and
\* (i - 1 + N) mod N backward; when it is no candidate it selects index 0
\* forward and N - 1 backward.  The result is the selected candidate without
\* currentPrefix at its front; a currentPrefix that is itself a candidate is
\* found with the empty suffix, and may be selected, giving the empty suffix.
C4_CyclerSelectsNeighbour ==
    call.op = "next" =>
        LET v == call.suitableRefs
            N == Len(v)
            shown == call.currentPrefix \o call.currentSuffix
            at == {i \in 0..(N - 1) : v[i + 1] = shown}
            selected == IF at = {}
                            THEN IF call.forwardSearch THEN 0 ELSE N - 1
                            ELSE LET i == CHOOSE i \in at : TRUE
                                 IN  IF call.forwardSearch THEN (i + 1) % N
                                     ELSE (i - 1 + N) % N
        IN  /\ N >= 1
            /\ call.currentPrefix \o call.newSuffix = v[selected + 1]
            /\ (call.currentSuffix = << >> /\ v[selected + 1] # call.currentPrefix)
                   => call.newSuffix # << >>

\* backward from the prefix, which is the first of three candidates, wraps to
\* the last one
C4_Witness ==
    /\ call.op = "next"
    /\ call.suitableRefs = <<Abc, Abc \o Foo, Abc \o Xyz>>
    /\ ~call.forwardSearch
    /\ call.currentSuffix = << >>
    /\ call.newSuffix = Xyz

\* C5 (as amended): on the sorted list (abcbar, abcfoo, abcxyz) with prefix
\* abc the cycler gives next(forward, xyz) = bar, next(forward, bar) = foo,
\* next(forward, "") = bar, next(backward, xyz) = foo, next(backward, foo) =
\* bar and next(backward, "") = xyz.  The values foo for next(forward, "") and
\* bar for next(backward, "") are those of the list in the order of LogicTest
\* (abcfoo, abcxyz, abcbar), where the other four values are the same.
C5_CyclerOracle ==
    (call.op = "next" /\ call.currentPrefix = Abc) =>
        /\ call.suitableRefs = <<Abc \o Bar, Abc \o Foo, Abc \o Xyz>> =>
             /\ (call.forwardSearch /\ call.currentSuffix = Xyz) => call.newSuffix = Bar
             /\ (call.forwardSearch /\ call.currentSuffix = Bar) => call.newSuffix = Foo
             /\ (call.forwardSearch /\ call.currentSuffix = << >>) => call.newSuffix = Bar
             /\ (~call.forwardSearch /\ call.currentSuffix = Xyz) => call.newSuffix = Foo
             /\ (~call.forwardSearch /\ call.currentSuffix = Foo) => call.newSuffix = Bar
             /\ (~call.forwardSearch /\ call.currentSuffix = << >>) => call.newSuffix = Xyz
        /\ call.suitableRefs = <<Abc \o Foo, Abc \o Xyz, Abc \o Bar>> =>
             /\ (call.forwardSearch /\ call.currentSuffix = Xyz) => call.newSuffix = Bar
             /\ (call.forwardSearch /\ call.currentSuffix = Bar) => call.newSuffix = Foo
             /\ (call.forwardSearch /\ call.currentSuffix = << >>) => call.newSuffix = Foo
             /\ (~call.forwardSearch /\ call.currentSuffix = Xyz) => call.newSuffix = Foo
             /\ (~call.forwardSearch /\ call.currentSuffix = Foo) => call.newSuffix = Bar
             /\ (~call.forwardSearch /\ call.currentSuffix = << >>) => call.newSuffix = Bar

\* forward from the empty suffix on the sorted list: the first candidate
C5_Witness ==
    /\ call.op = "next"
    /\ call.suitableRefs = <<Abc \o Bar, Abc \o Foo, Abc \o Xyz>>
    /\ call.forwardSearch
    /\ call.currentSuffix = << >>
    /\ call.newSuffix = Bar

\* C5 as stated: the six values on the sorted list
C5_SortedOracleAsStated ==
    (call.op = "next" /\ call.currentPrefix = Abc
        /\ call.suitableRefs = <<Abc \o Bar, Abc \o Foo, Abc \o Xyz>>) =>
        /\ (call.forwardSearch /\ call.currentSuffix = Xyz) => call.newSuffix = Bar
        /\ (call.forwardSearch /\ call.currentSuffix = Bar) => call.newSuffix = Foo
        /\ (call.forwardSearch /\ call.currentSuffix = << >>) => call.newSuffix = Foo
        /\ (~call.forwardSearch /\ call.currentSuffix = Xyz) => call.newSuffix = Foo
        /\ (~call.forwardSearch /\ call.currentSuffix = Foo) => call.newSuffix = Bar
        /\ (~call.forwardSearch /\ call.currentSuffix = << >>) => call.newSuffix = Bar

(***************************************************************************)
(* Properties of repeated invocations (Spec): `window` holds the names     *)
(* suggested by the latest consecutive cycling invocations.                *)
(***************************************************************************)
\* C6: with the dialog off, a fixed reference set and no edit, once the user
\* prefix is the common prefix of its N candidates every invocation keeps the
\* user prefix and suggests a candidate; forward, the suggestions follow the
\* sorted list with wraparound; any N consecutive invocations suggest each of
\* the N candidates once, so that N invocations display every candidate.  With
\* refs/heads/master and refs/heads/main, prefix "ma" and forward cycling, the
\* empty suffix is followed by "in", "in" by "ster" and "ster" by "in".
C6_CyclingVisitsAll ==
    (last.kind = "cycle" /\ ~last.faulty) =>
        LET v == last.suitableRefs
            N == Len(v)
            W == Len(window)
        IN  /\ cmdLine.userPrefix = last.before.userPrefix
            /\ W >= 1
            /\ window[W] = cmdLine.userPrefix \o cmdLine.suggestedSuffix
            /\ \A i \in 1..W : window[i] \in Range(v)
            /\ \A i, j \in 1..W : (i < j /\ j - i < N) => window[i] # window[j]
            /\ W >= N => {window[i] : i \in (W - N + 1)..W} = Range(v)
            /\ options.suggestNextSuffix =>
                   \A i \in 1..(W - 1) :
                       \E k \in 1..N : v[k] = window[i] /\ window[i + 1] = v[(k % N) + 1]
            /\ (options.suggestNextSuffix /\ v = <<Main, Master>>
                    /\ last.before.userPrefix = <<"m","a">>) =>
                   /\ cmdLine.userPrefix = <<"m","a">>
                   /\ last.before.suggestedSuffix = << >>
                          => cmdLine.suggestedSuffix = <<"i","n">>
                   /\ last.before.suggestedSuffix = <<"i","n">>
                          => cmdLine.suggestedSuffix = <<"s","t","e","r">>
                   /\ last.before.suggestedSuffix = <<"s","t","e","r">>
                          => cmdLine.suggestedSuffix = <<"i","n">>

\* master and main, prefix "ma": in, ster and in again
C6_Witness ==
    /\ repo = {HeadsPrefix \o Master, HeadsPrefix \o Main}
    /\ options.suggestNextSuffix
    /\ cmdLine = [userPrefix |-> <<"m","a">>, suggestedSuffix |-> <<"i","n">>]
    /\ window = <<Main, Master, Main>>

(***************************************************************************)
(* Properties of the selection and of the failures (Spec).                 *)
(***************************************************************************)
\* C7: in an invocation that reaches the selection without undefined
\* behaviour, when some ShortName of the enumerated references starts with
\* currentPrefix the candidates are exactly those names (strict strategy) and
\* the partial strategy is not run; otherwise the candidates are exactly the
\* ShortNames that RefMayBeEncodedByPartialPrefix accepts.  The candidates
\* never hold names of both strategies.
C7_StrategySelection ==
    LET reached == last.kind \in {"empty", "commit", "dialog", "cycle"}
        undefined == /\ last.ndebug /\ options.stripRemoteName
                     /\ \E ref \in last.delivered1 \cup last.delivered2 : Malformed(ref)
        strictSet == {name \in ShortNames(options, last.delivered1) :
                         StartsWith(name, last.currentPrefix)}
        partialSet == {name \in ShortNames(options, last.delivered2) :
                          RefMayBeEncodedByPartialPrefix(name, last.currentPrefix)}
    IN  (reached /\ ~undefined) =>
            /\ strictSet # {} =>
                 /\ last.strategy = "strict"
                 /\ Range(last.suitableRefs) = strictSet
            /\ strictSet = {} =>
                 /\ last.strategy = "partial"
                 /\ Range(last.suitableRefs) = partialSet
            /\ (last.kind = "empty") <=> (strictSet = {} /\ partialSet = {})

\* the tag o/m starts with the typed o/m; origin/master, which the partial
\* strategy would accept, is no candidate
C7_Witness ==
    /\ last.kind \in {"commit", "dialog", "cycle"}
    /\ ~last.faulty
    /\ last.strategy = "strict"
    /\ last.currentPrefix = <<"o","/","m">>
    /\ last.suitableRefs = << <<"o","/","m">> >>
    /\ RemotePrefix \o Origin \o <<"/">> \o Master \in repo

\* C8 as stated: a repository that does not open, or an error of the backend
\* while the iterator is created or advanced, is reported to the log and the
\* invocation changes nothing; the host is not aborted.
C8_BackendErrorsNotFatal ==
    /\ last.kind = "norepo" =>
         /\ host = "running"
         /\ last.log \cap {"Bad dir for Git", "libgit2 error"} # {}
         /\ cmdLine = last.before
    /\ last.iterError =>
         /\ host = "running"
         /\ last.log \cap {"Bad dir for Git", "libgit2 error"} # {}
         /\ cmdLine = last.before

(***************************************************************************)
(* Properties of the classifier (ClassifierSpec).                          *)
(***************************************************************************)
\* C9 as stated: classifying a reference under refs/remotes/ with no '/' after
\* that prefix aborts, for either value of stripRemoteName, and yields no
\* ShortName that is handled further.
C9_MalformedRemoteAborts ==
    (call.op = "classify" /\ Malformed(call.ref)) => call.out.fate = "aborted"

\* C10: refs/heads/X and refs/tags/X yield the one ShortName X; refs/remotes/R/B
\* yields R/B, and with stripRemoteName also what follows the first '/' of
\* R/B, slashes of the branch kept; a reference with another prefix yields no
\* ShortName.
C10_ClassifierOutput ==
    call.op = "classify" =>
        /\ \A X \in ClassifierNames :
             call.ref \in {HeadsPrefix \o X, TagsPrefix \o X} =>
                 /\ call.out.names = <<X>>
                 /\ call.out.fate = "ok"
        /\ \A RB \in ClassifierNames :
             (call.ref = RemotePrefix \o RB /\ "/" \in Range(RB)) =>
                 /\ call.out.fate = "ok"
                 /\ ~call.stripRemoteName => call.out.names = <<RB>>
                 /\ call.stripRemoteName =>
                      \E k \in 1..Len(RB) :
                          /\ RB[k] = "/"
                          /\ \A j \in 1..(k - 1) : RB[j] # "/"
                          /\ call.out.names = <<RB, SubSeq(RB, k + 1, Len(RB))>>
        /\ \A X \in ClassifierNames :
             call.ref \in {NotesPrefix \o X, RefsPrefix \o X} =>
                 /\ call.out.names = << >>
                 /\ call.out.ignored
                 /\ call.out.fate = "ok"

\* origin/f/x with stripRemoteName: the branch f/x keeps its slash
C10_Witness ==
    /\ call.op = "classify"
    /\ call.ref = RemotePrefix \o Origin \o <<"/","f","/","x">>
    /\ call.stripRemoteName
    /\ call.out.names = <<Origin \o <<"/","f","/","x">>, <<"f","/","x">>>>

(***************************************************************************)
(* Properties of the partial-prefix matcher (MatcherSpec).                 *)
(***************************************************************************)
\* C11: the matcher is the greedy left-to-right match: a punctuation or
\* uppercase prefix character takes the first occurrence of that character at
\* or after the ref cursor and fails if there is none, any other prefix
\* character must be the character at the ref cursor, and the end of the
\* prefix is success; the positions taken are never revised.  The pairs of
\* LogicTest match, or do not match, as it expects.
C11_GreedyMatch ==
    call.op = "match" =>
        LET ref == call.ref
            prefix == call.prefix
            Special(c) == ispunct(c) \/ isupper(c)
            Greedy(pos) ==
                \A k \in 1..Len(prefix) :
                    LET start == IF k = 1 THEN 1 ELSE pos[k - 1] + 1
                    IN  /\ pos[k] >= start
                        /\ ref[pos[k]] = prefix[k]
                        /\ Special(prefix[k]) =>
                               \A j \in start..(pos[k] - 1) : ref[j] # prefix[k]
                        /\ ~Special(prefix[k]) => pos[k] = start
        IN  /\ (Len(ref) <= MaxRefLen /\ Len(prefix) <= MaxPrefixLen) =>
                   (call.result <=>
                        \E pos \in [1..Len(prefix) -> 1..Len(ref)] : Greedy(pos))
            /\ <<ref, prefix>> \in LogicTestMatching => call.result
            /\ <<ref, prefix>> \in LogicTestNotMatching => ~call.result

\* "/b" against "//b": the first '/' is taken, the second is not tried
C11_Witness ==
    /\ call.op = "match"
    /\ call.ref = <<"/","/","b">>
    /\ call.prefix = <<"/","b">>
    /\ ~call.result

\* C12: a prefix the ref literally starts with (the empty one and the whole
\* ref among them) is accepted by the matcher whatever characters it holds, so
\* a name the strict strategy accepts is accepted by the partial strategy.
C12_LiteralPrefixMatches ==
    call.op = "match" =>
        /\ StartsWith(call.ref, call.prefix) => call.result
        /\ call.strict => call.partial

\* the prefix "Q/" of "Q/a": an uppercase and a punctuation character
C12_Witness ==
    /\ call.op = "match"
    /\ call.ref = <<"Q","/","a">>
    /\ call.prefix = <<"Q","/">>
    /\ call.result

\* C20: the loop of the matcher ends after at most len(prefix) + 1 iterations
\* with the prefix cursor at or before the prefix terminator and the ref
\* cursor at or before the ref terminator; it succeeds exactly when the prefix
\* cursor reached the terminator.
C20_MatcherInBounds ==
    call.op = "match" =>
        /\ call.loop.iterations <= Len(call.prefix) + 1
        /\ call.loop.p <= Len(call.prefix) + 1
        /\ call.loop.r <= Len(call.ref) + 1
        /\ call.loop.result <=> (call.loop.p = Len(call.prefix) + 1)
        /\ call.loop.result = call.result

\* a prefix longer than the ref that ends in a punctuation character: the
\* search starts at the ref terminator and fails
C20_Witness ==
    /\ call.op = "match"
    /\ call.ref = <<"a">>
    /\ call.prefix = <<"a","/">>
    /\ call.loop.r = 2
    /\ call.loop.iterations = 2
    /\ ~call.result

(***************************************************************************)
(* Properties of the dialog and of the empty result (Spec).                *)
(***************************************************************************)
\* C13: an invocation with newPrefix = currentPrefix and showDialog shows the
\* dialog once, with the whole sorted candidate list (one candidate is enough)
\* and the text currentPrefix + currentSuffix.  When the dialog returns a
\* non-empty string s the suggested suffix is replaced by the empty string,
\* then the user prefix by s: the invocation ends with userPrefix = s and an
\* empty suggested suffix.
C13_DialogSelection ==
    LET IsWrite(op) == op \in {"ReplaceUserPrefix", "ReplaceSuggestedSuffix"}
    IN  /\ (last.kind \in {"dialog", "cycle"} /\ options.showDialog) => last.kind = "dialog"
        /\ last.kind = "dialog" =>
             /\ options.showDialog /\ last.newPrefix = last.currentPrefix
             /\ Len(last.shown) = 1
             /\ last.shown[1].list = last.suitableRefs
             /\ Len(last.suitableRefs) >= 1
             /\ last.shown[1].text = last.before.userPrefix \o last.before.suggestedSuffix
             /\ last.shown[1].selectedRef # << >> =>
                  /\ SelectSeq(last.ops, IsWrite)
                         = <<"ReplaceSuggestedSuffix", "ReplaceUserPrefix">>
                  /\ cmdLine = [userPrefix |-> last.shown[1].selectedRef,
                                suggestedSuffix |-> << >>]
        /\ last.kind # "dialog" => last.shown = << >>

\* one candidate, ma, shown next to the text "main" of an earlier suggestion,
\* and chosen
C13_Witness ==
    /\ last.kind = "dialog"
    /\ last.suitableRefs = << <<"m","a">> >>
    /\ last.shown[1].text = Main
    /\ last.shown[1].selectedRef = <<"m","a">>
    /\ cmdLine = [userPrefix |-> <<"m","a">>, suggestedSuffix |-> << >>]

\* C14: when the dialog returns the empty string the invocation writes nothing
\* to the buffer: the user prefix and the suggested suffix, one left by an
\* earlier suggestion included, are as before the invocation.
C14_DialogCancelled ==
    LET IsWrite(op) == op \in {"ReplaceUserPrefix", "ReplaceSuggestedSuffix"}
    IN  (last.kind = "dialog" /\ last.shown[1].selectedRef = << >>) =>
            /\ SelectSeq(last.ops, IsWrite) = << >>
            /\ cmdLine = last.before
            /\ host = "running"

\* the dialog cancelled while "in" is suggested after "ma"
C14_Witness ==
    /\ last.kind = "dialog"
    /\ last.shown[1].selectedRef = << >>
    /\ last.before.suggestedSuffix = <<"i","n">>
    /\ cmdLine = [userPrefix |-> <<"m","a">>, suggestedSuffix |-> <<"i","n">>]

\* C15: an invocation in which neither strategy yields a candidate ends
\* without a common prefix computed, without the cycler or the dialog called
\* and without a write: the buffer is as before and the host runs on.  With a
\* backend that reports no error this is the case exactly when no ShortName of
\* the repository starts with the user prefix or is encoded by it, a
\* repository with no recognised reference included.
C15_EmptyResultNoOp ==
    LET names == ShortNames(options, repo)
        none == \A n \in names :
                    /\ ~StartsWith(n, last.before.userPrefix)
                    /\ ~RefMayBeEncodedByPartialPrefix(n, last.before.userPrefix)
    IN  /\ last.kind = "empty" =>
              /\ last.ops = <<"GetUserPrefix">>
              /\ "Common prefix" \notin last.log
              /\ "No suitable refs" \in last.log
              /\ last.shown = << >>
              /\ last.suitableRefs = << >>
              /\ cmdLine = last.before
              /\ host = "running"
        /\ (last.kind \in {"empty", "commit", "cycle", "dialog"} /\ ~last.faulty) =>
              (none <=> last.kind = "empty")

\* refs/stash alone in the repository, and a suffix left on the line
C15_Witness ==
    /\ last.kind = "empty" /\ ~last.faulty
    /\ repo = { <<"r","e","f","s","/","s","t","a","s","h">> }
    /\ cmdLine = [userPrefix |-> << >>, suggestedSuffix |-> <<"i","n">>]

(***************************************************************************)
(* Properties of the common prefix (PrefixSpec).                           *)
(***************************************************************************)
\* C16: the string FindCommonPrefix computes from a non-empty list is a prefix
\* of every candidate, and no longer string is; for a single candidate it is
\* that candidate; the same list in another order, or with candidates
\* inserted again, gives the same string; no insertion gives the empty string.
C16_CommonPrefix ==
    call.op = "prefix" =>
        LET v == call.suitableRefs
            n == Len(v)
            IsCommon(q) == \A i \in 1..n : Len(q) <= Len(v[i]) /\ SubSeq(v[i], 1, Len(q)) = q
        IN  /\ n >= 1 =>
                 /\ IsCommon(call.newPrefix)
                 /\ \A i \in 1..n : \A k \in 0..Len(v[i]) :
                        IsCommon(SubSeq(v[i], 1, k)) => k <= Len(call.newPrefix)
            /\ n = 1 => call.newPrefix = v[1]
            /\ n = 0 => call.newPrefix = << >>
            /\ \A f \in [1..n -> 1..n] :
                   Range([i \in 1..n |-> v[f[i]]]) = Range(v)
                       => FindCommonPrefix([i \in 1..n |-> v[f[i]]]) = call.newPrefix
            /\ \A i \in 1..n : FindCommonPrefix(Append(v, v[i])) = call.newPrefix

\* master, main and master again: the common prefix is ma
C16_Witness ==
    /\ call.op = "prefix"
    /\ call.suitableRefs = <<Master, Main, Master>>
    /\ call.newPrefix = <<"m","a">>

(***************************************************************************)
(* Properties of the candidate list (Spec).                                *)
(***************************************************************************)
\* C17: an invocation that reaches the cycler or the dialog has at least one
\* candidate and every candidate starts with currentPrefix; and an invocation
\* whose candidates came from the partial-prefix fallback commits, it reaches
\* neither the cycler nor the dialog.
C17_PartialAlwaysCommits ==
    /\ last.kind \in {"cycle", "dialog"} =>
          /\ Len(last.suitableRefs) >= 1
          /\ \A i \in 1..Len(last.suitableRefs) :
                StartsWith(last.suitableRefs[i], last.currentPrefix)
    /\ (last.strategy = "partial" /\ last.kind \in {"commit", "cycle", "dialog"}) =>
          last.kind = "commit"

\* C18: the candidate list handed to FindCommonPrefix, to the cycler and to
\* the dialog is in strictly ascending byte-wise order, hence without a
\* duplicate, whatever the order of the backend's enumeration and also when
\* several references give the same ShortName.
C18_CandidatesStrictlyAscending ==
    LET v == last.suitableRefs
        \* a is before b: at the first position where they differ a has the
        \* smaller byte, or a ends there and b does not
        Before(a, b) ==
            \E k \in 1..Len(b) :
                /\ k <= Len(a) + 1
                /\ SubSeq(a, 1, k - 1) = SubSeq(b, 1, k - 1)
                /\ (k = Len(a) + 1 \/ Code(a[k]) < Code(b[k]))
    IN  last.kind \in {"commit", "cycle", "dialog"} =>
            /\ Len(v) >= 1
            /\ \A i \in 1..(Len(v) - 1) : Before(v[i], v[i + 1])
            /\ \A i, j \in 1..Len(v) : i # j => v[i] # v[j]
            /\ last.kind = "dialog" => last.shown[1].list = v

\* master is the name of a branch and, the remote name stripped, of a
\* remote-tracking branch: it is a candidate once
C18_Witness ==
    /\ last.kind \in {"cycle", "dialog"}
    /\ options.stripRemoteName
    /\ repo = {HeadsPrefix \o Master, RemotePrefix \o Origin \o <<"/">> \o Master}
    /\ last.suitableRefs = <<Master, Origin \o <<"/">> \o Master>>

(***************************************************************************)
(* Properties of a sequence of invocations (Spec).                         *)
(***************************************************************************)
\* C19: with the dialog off, the same references delivered by every
\* enumeration and no edit in between, only the first invocation may change
\* the user prefix.
\* The invocation after a commit, whichever strategy gave the committed
\* candidates, selects by strict prefix, its candidates include those of the
\* commit, its common prefix is the committed prefix, and it cycles; the
\* invocation after a cycling one cycles.
C19_PrefixConvergence ==
    LET Ran(kind) == kind \in {"empty", "commit", "cycle"}
    IN  (~options.showDialog /\ ~last.prevFaulty /\ ~last.faulty) =>
            /\ (Ran(last.prevKind) /\ last.kind \notin {"none", "norepo"}) =>
                  /\ Ran(last.kind)
                  /\ cmdLine.userPrefix = last.before.userPrefix
            /\ (last.prevKind = "commit" /\ last.kind \notin {"none", "norepo"}) =>
                  /\ last.kind = "cycle"
                  /\ last.strategy = "strict"
                  /\ last.before.userPrefix = last.prevNewPrefix
                  /\ last.newPrefix = last.prevNewPrefix
                  /\ Range(last.prevSuitableRefs) \subseteq Range(last.suitableRefs)
            /\ (last.prevKind = "cycle" /\ last.kind \notin {"none", "norepo"}) =>
                  last.kind = "cycle"

\* "o/m" was completed by the partial strategy to origin/master, and the next
\* invocation finds origin/master by strict prefix and suggests it
C19_Witness ==
    /\ ~options.showDialog /\ ~last.prevFaulty /\ ~last.faulty
    /\ last.prevKind = "commit" /\ last.prevStrategy = "partial"
    /\ last.kind = "cycle" /\ last.strategy = "strict"
    /\ last.prevSuitableRefs = <<Origin \o <<"/">> \o Master>>
    /\ last.suitableRefs = last.prevSuitableRefs
    /\ cmdLine.userPrefix = Origin \o <<"/">> \o Master

=============================================================================
